---------------------------- MODULE Spec2Model ----------------------------
(***************************************************************************)
(* A model of pyqsp's phase generators (pyqsp/phases.py) and response      *)
(* engine (pyqsp/response.py).                                             *)
(*                                                                         *)
(* Numbers.  Real numbers the code divides, subtracts and multiplies       *)
(* (poly2chebyfn) are exact rationals <<n, d>> in lowest terms, d > 0.     *)
(* Transcendental quantities are kept as terms over uninterpreted atoms:   *)
(*   - an angle is q * arctan2(1, tan(2 pi k / L) * sqrt(1 - g^2)) with a  *)
(*     rational q and the atom (k, L, g);                                  *)
(*   - gamma is either the number the caller gave or the term              *)
(*     1 / cosh((1/L) * arccosh(1/delta)) over (L, delta);                 *)
(*   - a 2x2 matrix product is the sequence of its primitive factors       *)
(*     (H, diag(e^{i phi}, e^{-i phi}), the signal rotation of a), and @   *)
(*     is concatenation.                                                   *)
(* Two equal terms denote equal numbers, so an equality the model          *)
(* establishes holds of the numbers too.                                   *)
(*                                                                         *)
(* Arrays indexed from 0 in the source are functions on 0..n-1 here; lists *)
(* the source only appends to and iterates are sequences.  Python's None   *)
(* is the empty sequence and a supplied optional argument x is <<x>>.      *)
(***************************************************************************)
EXTENDS Integers, Sequences, FiniteSets, TLC

VARIABLES
    \* ---- generators (FPSearch instance + erf_step) ----
    avec,        \* FPSearch instance attribute self.avec  [set, v]
    bvec,        \* FPSearch instance attribute self.bvec  [set, v]
    genCall,     \* the arguments of the most recent generate call
    genGamma,    \* local gamma of the most recent FPSearch.generate (printed)
    genRet,      \* what the most recent generate call returned or raised
    phiWrites,   \* number of assignments the phivec loop made to each index
    \* ---- ComputeQSPResponse ----
    rArgs,       \* the call's arguments (adat, phiset, signal_operator, measurement)
    rpc,         \* position in ComputeQSPResponse
    measurement, \* local measurement after defaulting
    model,       \* local model tuple
    pmats,       \* local list pmats
    pdat,        \* local list pdat
    Ulog,        \* the operator U built for each sample evaluated so far
    rRet,        \* the returned dataset or the raised exception
    \* ---- poly2chebyfn ----
    cArgs,       \* the call's arguments (pcoefs, kind)
    cpc,         \* position in poly2chebyfn
    P,           \* local residual polynomial
    C,           \* local list C
    l,           \* loop variable
    sweep,       \* the degrees the loop body has run for, in order
    cRet         \* the returned list or the raised exception

genVars  == <<avec, bvec, genCall, genGamma, genRet, phiWrites>>
respVars == <<rArgs, rpc, measurement, model, pmats, pdat, Ulog, rRet>>
chebVars == <<cArgs, cpc, P, C, l, sweep, cRet>>
vars     == <<genVars, respVars, chebVars>>

-----------------------------------------------------------------------------
(* Bounds of the model                                                     *)

MaxD == 2             \* FPSearch: d ranges over 1..MaxD
MaxDeltaTenths == 2   \* FPSearch: delta ranges over 1/10 .. MaxDeltaTenths/10
MaxGammaTenths == 2   \* FPSearch: gamma ranges over 1/10 .. MaxGammaTenths/10
MaxN == 24            \* erf_step: n ranges over 0..MaxN
MaxAdat == 2          \* ComputeQSPResponse: len(adat) <= MaxAdat
MaxPhis == 3          \* ComputeQSPResponse: len(phiset) <= MaxPhis
NumVals == 2          \* ComputeQSPResponse: samples and phases are drawn from 1..NumVals
MaxDeg == 3           \* poly2chebyfn: len(pcoefs) <= MaxDeg + 1
MaxCoef == 1          \* poly2chebyfn: coefficients range over -MaxCoef..MaxCoef

-----------------------------------------------------------------------------
(* Optional arguments, 0-based arrays                                      *)

None == <<>>
Some(x) == <<x>>
IsNone(o) == o = <<>>
Get(o) == o[1]

Size(f) == Cardinality(DOMAIN f)
\* a[::-1]
Reversed0(a) == [i \in DOMAIN a |-> a[Size(a) - 1 - i]]
\* list(reversed(s)) of a sequence
ReversedSeq(s) == [i \in 1..Len(s) |-> s[Len(s) + 1 - i]]
\* the sequences over S of length at most n
SeqsUpTo(S, n) == UNION {[1..m -> S] : m \in 0..n}

-----------------------------------------------------------------------------
(* Exact rational arithmetic                                               *)

Abs(x) == IF x < 0 THEN -x ELSE x

RECURSIVE GCD(_, _)
GCD(a, b) == IF b = 0 THEN a ELSE GCD(b, a % b)

\* numpy float division: a zero divisor does not raise, it yields inf or nan
\* (with a RuntimeWarning); both are the non-number <<0, 0>> here, and
\* arithmetic on a non-number yields a non-number.
NotANumber == <<0, 0>>

RatNorm(n, d) ==
    IF d = 0 THEN NotANumber
    ELSE LET s == IF d < 0 THEN -1 ELSE 1
             g == GCD(Abs(n), Abs(d))
         IN  <<(s * n) \div g, (s * d) \div g>>

RZero == <<0, 1>>
RInt(n) == <<n, 1>>
RAdd(a, b) == RatNorm(a[1] * b[2] + b[1] * a[2], a[2] * b[2])
RNeg(a) == <<-a[1], a[2]>>
RSub(a, b) == RAdd(a, RNeg(b))
RMul(a, b) == RatNorm(a[1] * b[1], a[2] * b[2])
RDiv(a, b) == RatNorm(a[1] * b[2], a[2] * b[1])

-----------------------------------------------------------------------------
(* FPSearch.generate                                      phases.py 58-84  *)

\* delta = 0.1, the default when neither delta nor gamma is given
DefaultDelta == RatNorm(1, 10)

\* gamma as given by the caller
GivenGamma(g) == [src |-> "given", val |-> g, L |-> 0, delta |-> RZero]
\* 1 / np.cosh((1 / L) * np.arccosh(1 / delta))
DerivedGamma(L, delta) == [src |-> "derived", val |-> RZero, L |-> L, delta |-> delta]
NoGamma == [src |-> "none", val |-> RZero, L |-> 0, delta |-> RZero]

\* lines 64-68: the gamma the construction uses.  A wrong variant lets a
\* supplied delta override a supplied gamma.
GammaDeltaFirst(L, delta, gamma) ==
    IF IsNone(delta) /\ ~IsNone(gamma) THEN GivenGamma(Get(gamma))
    ELSE DerivedGamma(L, IF IsNone(delta) THEN DefaultDelta ELSE Get(delta))

GammaUsed(L, delta, gamma) ==
    IF IsNone(gamma)
    THEN DerivedGamma(L, IF IsNone(delta) THEN DefaultDelta ELSE Get(delta))
    ELSE GivenGamma(Get(gamma))

\* q * arctan2(1, tan(2 pi k / L) * sqrt(1 - g^2)); the zero angle has no atom
Angle(q, k, L, g) ==
    IF q[1] = 0 THEN [q |-> RZero, k |-> 0, L |-> 0, g |-> NoGamma]
    ELSE [q |-> q, k |-> k, L |-> L, g |-> g]
ZeroAngle == Angle(RZero, 0, 0, NoGamma)
AngNeg(x) == Angle(RNeg(x.q), x.k, x.L, x.g)
AngHalf(x) == Angle(RDiv(x.q, RInt(2)), x.k, x.L, x.g)

\* line 63, 72: kvec = arange(1, d+1); avec = 2 * arctan2(1, tan(2 pi kvec / L) * sg)
Avec(d, L, g) == [i \in 0..(d - 1) |-> Angle(RInt(2), i + 1, L, g)]

\* line 75: bvec = - avec[::-1].  A wrong variant forgets the reversal.
BvecNotReversed(a) == [i \in DOMAIN a |-> AngNeg(a[i])]

Bvec(a) == [i \in DOMAIN a |-> AngNeg(Reversed0(a)[i])]

\* lines 78-82: phivec = zeros(2d), then the loop over k = 0..d-1, carried out
\* assignment by assignment; writes counts the assignments to each index.
RECURSIVE PhiLoop(_, _, _, _, _)
PhiLoop(k, d, a, b, acc) ==
    IF k >= d THEN acc
    ELSE LET i0 == 2 * k
             i1 == 2 * k + 1
             p1 == [acc.phivec EXCEPT ![i0] = AngHalf(AngNeg(a[d - k - 1]))]
             p2 == [p1 EXCEPT ![i1] = AngHalf(b[d - k - 1])]
             w1 == [acc.writes EXCEPT ![i0] = @ + 1]
             w2 == [w1 EXCEPT ![i1] = @ + 1]
         IN  PhiLoop(k + 1, d, a, b, [phivec |-> p2, writes |-> w2])

Phivec(d, a, b) ==
    PhiLoop(0, d, a, b, [phivec |-> [i \in 0..(2 * d - 1) |-> ZeroAngle],
                         writes |-> [i \in 0..(2 * d - 1) |-> 0]])

Returned(v) == [kind |-> "return", v |-> v, exc |-> ""]
Raised(e) == [kind |-> "raise", v |-> <<>>, exc |-> e]
NoResult == [kind |-> "none", v |-> <<>>, exc |-> ""]

Attr(v) == [set |-> TRUE, v |-> v]
NoAttr == [set |-> FALSE, v |-> <<>>]

DeltaVals == {RatNorm(i, 10) : i \in 1..MaxDeltaTenths}
GammaVals == {RatNorm(i, 10) : i \in 1..MaxGammaTenths}
OptOf(S) == {None} \cup {Some(x) : x \in S}

FPCall(d, delta, gamma, return_alpha) ==
    [op |-> "fpsearch", d |-> d, delta |-> delta, gamma |-> gamma,
     return_alpha |-> return_alpha, n |-> 0]
ErfCall(n) ==
    [op |-> "erf_step", d |-> 0, delta |-> None, gamma |-> None,
     return_alpha |-> FALSE, n |-> n]
NoCall ==
    [op |-> "none", d |-> 0, delta |-> None, gamma |-> None,
     return_alpha |-> FALSE, n |-> 0]

FPSearch_generate(d, delta, gamma, return_alpha) ==
    LET L == 2 * d + 1
        g == GammaUsed(L, delta, gamma)
        a == Avec(d, L, g)
    IN  /\ genCall' = FPCall(d, delta, gamma, return_alpha)
        /\ genGamma' = g
        /\ IF return_alpha
           THEN /\ genRet' = Returned(a)
                /\ phiWrites' = <<>>
                /\ UNCHANGED <<avec, bvec>>
           ELSE LET b == Bvec(a)
                    r == Phivec(d, a, b)
                IN  /\ avec' = Attr(a)
                    /\ bvec' = Attr(b)
                    /\ phiWrites' = r.writes
                    /\ genRet' = Returned(r.phivec)

\* d is a positive search length; delta and gamma are absent or positive
\* numbers (1 / delta is defined).
FPGenerate ==
    \E d \in 1..MaxD, delta \in OptOf(DeltaVals), gamma \in OptOf(GammaVals),
       return_alpha \in BOOLEAN :
        /\ FPSearch_generate(d, delta, gamma, return_alpha)
        /\ UNCHANGED <<respVars, chebVars>>

-----------------------------------------------------------------------------
(* erf_step.generate                                     phases.py 91-109  *)

\* a decimal literal m * 10^e
Lit(m, e) == [m |-> m, e |-> e]

phi_n7_erf ==
    <<Lit(158019, -5), Lit(172821, -8), Lit(251897, -6), Lit(-834542, -6),
      Lit(-834542, -6), Lit(251897, -6), Lit(172821, -8), Lit(939863, -8)>>

phi_n23_erf ==
    <<Lit(15708, -4), Lit(287883, -13), Lit(583909, -12), Lit(184144, -11),
      Lit(209995, -10), Lit(-120126, -10), Lit(564903, -9), Lit(-22922, -7),
      Lit(150024, -7), Lit(-64666, -6), Lit(263754, -6), Lit(-926685, -6),
      Lit(-926912, -6), Lit(263756, -6), Lit(-645576, -7), Lit(14932, -6),
      Lit(-225885, -8), Lit(553565, -9), Lit(-829284, -11), Lit(200459, -10),
      Lit(209476, -11), Lit(53026, -11), Lit(438578, -13), Lit(366401, -14)>>

\* A wrong variant falls back to the n = 7 table instead of raising.
ErfLookupWithDefault(n) ==
    IF n = 23 THEN Returned(phi_n23_erf) ELSE Returned(phi_n7_erf)

\* lines 105-109
erf_step_generate(n) ==
    IF n = 7 THEN Returned(phi_n7_erf)
    ELSE IF n = 23 THEN Returned(phi_n23_erf)
    ELSE Raised("Exception")

ErfGenerate ==
    \E n \in 0..MaxN :
        /\ genCall' = ErfCall(n)
        /\ genRet' = erf_step_generate(n)
        /\ UNCHANGED <<avec, bvec, genGamma, phiWrites>>
        /\ UNCHANGED <<respVars, chebVars>>

-----------------------------------------------------------------------------
(* ComputeQSPResponse                                   response.py 10-88  *)

\* primitive 2x2 matrices; a product of matrices is the sequence of its factors
H == [m |-> "H", x |-> 0]                 \* [[1, 1], [1, -1]] / sqrt(2)
Diag(phi) == [m |-> "diag", x |-> phi]    \* [[e^{i phi}, 0], [0, e^{-i phi}]]
Rot(a) == [m |-> "rot", x |-> a]          \* [[a, i sqrt(1-a^2)], [i sqrt(1-a^2), a]]
MatMul(A, B) == A \o B

\* lines 38-40, 48-50
sig_op(so, a) ==
    IF so = "Wx" THEN <<Rot(a)>> ELSE MatMul(MatMul(<<H>>, <<Rot(a)>>), <<H>>)
\* lines 42-44, 52-54
qsp_op(so, phi) ==
    IF so = "Wx" THEN <<Diag(phi)>> ELSE MatMul(MatMul(<<H>>, <<Diag(phi)>>), <<H>>)

\* lines 60-63: the measurement state vector
p_state(meas) ==
    IF meas = Some("x") THEN [vec |-> <<1, 1>>, over_sqrt2 |-> TRUE]
    ELSE IF meas = Some("z") THEN [vec |-> <<1, 0>>, over_sqrt2 |-> FALSE]
    ELSE [vec |-> <<0, 0>>, over_sqrt2 |-> FALSE]

\* line 79: (p_state.T @ U @ p_state)[0, 0]
Response(p, U) == [bra |-> p, U |-> U, ket |-> p]

\* lines 29-33.  A wrong variant swaps the two defaults.
DefaultSwapped(so, meas) ==
    IF ~IsNone(meas) THEN meas
    ELSE IF so = "Wx" THEN Some("z")
    ELSE IF so = "Wz" THEN Some("x")
    ELSE meas

DefaultMeasurement(so, meas) ==
    IF ~IsNone(meas) THEN meas
    ELSE IF so = "Wx" THEN Some("x")
    ELSE IF so = "Wz" THEN Some("z")
    ELSE meas

\* lines 37-67: which check of the configuration fails, if any.  A wrong
\* variant never checks the measurement.
ConfigErrorNoMeasurementCheck(so, meas) ==
    IF so \notin {"Wx", "Wz"} THEN "ResponseError" ELSE ""

ConfigError(so, meas) ==
    IF so \notin {"Wx", "Wz"} THEN "ResponseError"
    ELSE IF meas \notin {Some("x"), Some("z")} THEN "ResponseError"
    ELSE ""

\* lines 76-78: U = pmats[0]; for pm in pmats[1:]: U = U @ W @ pm, for a
\* non-empty pmats.  UFrom(i, U, pm, W) runs the loop from the i-th element.
\* A wrong variant puts the signal factor after each phase factor.
RECURSIVE UFromSignalLast(_, _, _, _)
UFromSignalLast(i, U, pm, W) ==
    IF i > Len(pm) THEN U
    ELSE UFromSignalLast(i + 1, MatMul(MatMul(U, pm[i]), W), pm, W)

RECURSIVE UFrom(_, _, _, _)
UFrom(i, U, pm, W) ==
    IF i > Len(pm) THEN U
    ELSE UFrom(i + 1, MatMul(MatMul(U, W), pm[i]), pm, W)

Dataset(adat, pd, mdl, phiset) ==
    [adat |-> adat, pdat |-> pd, model |-> mdl, phiset |-> phiset]
NoDataset == Dataset(<<>>, <<>>, <<>>, <<>>)

RetDataset(ds) == [kind |-> "return", ds |-> ds, exc |-> ""]
RaisedResp(e) == [kind |-> "raise", ds |-> NoDataset, exc |-> e]
NoRespResult == [kind |-> "none", ds |-> NoDataset, exc |-> ""]

RespArgs(adat, phiset, so, meas) ==
    [adat |-> adat, phiset |-> phiset, signal_operator |-> so, measurement |-> meas]
NoRespArgs == RespArgs(<<>>, <<>>, "", None)

\* lines 27-67: pdat = [], the default measurement, the model tuple, the
\* operators and the measurement state, or ResponseError
RespSetup ==
    /\ rpc = "start"
    /\ LET so == rArgs.signal_operator
           meas == DefaultMeasurement(so, rArgs.measurement)
           e == ConfigError(so, meas)
       IN  /\ pdat' = <<>>
           /\ measurement' = meas
           /\ model' = <<so, meas>>
           /\ IF e # ""
              THEN rpc' = "raised" /\ rRet' = RaisedResp(e)
              ELSE rpc' = "pmats" /\ rRet' = rRet
    /\ UNCHANGED <<rArgs, pmats, Ulog>>
    /\ UNCHANGED <<genVars, chebVars>>

\* lines 70-72: one iteration of "for phi in phiset", or the loop's end
RespPmats ==
    /\ rpc = "pmats"
    /\ IF Len(pmats) < Len(rArgs.phiset)
       THEN /\ pmats' = Append(pmats, qsp_op(rArgs.signal_operator,
                                             rArgs.phiset[Len(pmats) + 1]))
            /\ rpc' = rpc
       ELSE /\ rpc' = "samples"
            /\ pmats' = pmats
    /\ UNCHANGED <<rArgs, measurement, model, pdat, Ulog, rRet>>
    /\ UNCHANGED <<genVars, chebVars>>

\* lines 74-79: one iteration of "for a in adat"; pmats[0] of an empty list
\* raises IndexError
RespSample ==
    /\ rpc = "samples"
    /\ Len(pdat) < Len(rArgs.adat)
    /\ LET a == rArgs.adat[Len(pdat) + 1]
           W == sig_op(rArgs.signal_operator, a)
       IN  IF pmats = <<>>
           THEN /\ rpc' = "raised"
                /\ rRet' = RaisedResp("IndexError")
                /\ UNCHANGED <<pdat, Ulog>>
           ELSE LET U == UFrom(2, pmats[1], pmats, W)
                IN  /\ pdat' = Append(pdat, Response(p_state(measurement), U))
                    /\ Ulog' = Append(Ulog, U)
                    /\ UNCHANGED <<rpc, rRet>>
    /\ UNCHANGED <<rArgs, measurement, model, pmats>>
    /\ UNCHANGED <<genVars, chebVars>>

\* lines 81-88
RespReturn ==
    /\ rpc = "samples"
    /\ Len(pdat) = Len(rArgs.adat)
    /\ rpc' = "returned"
    /\ rRet' = RetDataset(Dataset(rArgs.adat, pdat, model, rArgs.phiset))
    /\ UNCHANGED <<rArgs, measurement, model, pmats, pdat, Ulog>>
    /\ UNCHANGED <<genVars, chebVars>>

-----------------------------------------------------------------------------
(* poly2chebyfn                                        phases.py 146-161   *)

\* 0-based polynomial arithmetic, coefficients low degree first
PolyScale(c, p) == [i \in DOMAIN p |-> RMul(c, p[i])]
PolySub(p, q) == [i \in DOMAIN p |-> RSub(p[i], q[i])]
PolyAdd(p, q) == [i \in DOMAIN p |-> RAdd(p[i], q[i])]
\* p + [0.0 for _ in range(l, deg)]: p padded with zeros to n coefficients
Padded(p, n) == [i \in 0..(n - 1) |-> IF i \in DOMAIN p THEN p[i] ELSE RZero]
\* x * p
ShiftUp(p) == [i \in 0..Size(p) |-> IF i = 0 THEN RZero ELSE p[i - 1]]

\* scipy's chebyt(n) / chebyu(n) as coefficient lists, low degree first:
\* T0 = 1, T1 = x, U0 = 1, U1 = 2x, X(n+1) = 2x X(n) - X(n-1)
RECURSIVE Chebyshev(_, _)
Chebyshev(kind, n) ==
    IF n = 0 THEN [i \in 0..0 |-> RInt(1)]
    ELSE IF n = 1 THEN [i \in 0..1 |-> IF i = 0 THEN RZero
                                        ELSE IF kind = "T" THEN RInt(1) ELSE RInt(2)]
    ELSE PolySub(PolyScale(RInt(2), ShiftUp(Chebyshev(kind, n - 1))),
                 Padded(Chebyshev(kind, n - 2), n + 1))

\* lines 148-151: cfunc(x) = list(reversed(cheby?(x).coef))
cfunc(kind, x) == Chebyshev(kind, x)

PolyArgs(pcoefs, kind) == [pcoefs |-> pcoefs, kind |-> kind]
NoPolyArgs == PolyArgs(<<>>, "")

\* line 161.  A wrong variant returns C as the sweep built it, high degree first.
ResultNotReversed(c) == c

Result(c) == ReversedSeq(c)

\* lines 147-154
ChebSetup ==
    /\ cpc = "start"
    /\ P' = cArgs.pcoefs
    /\ C' = <<>>
    /\ l' = Size(cArgs.pcoefs) - 1
    /\ cpc' = "loop"
    /\ UNCHANGED <<cArgs, sweep, cRet>>
    /\ UNCHANGED <<genVars, respVars>>

\* lines 155-160: one iteration of "for l in range(deg, -1, -1)"; with a kind
\* other than T or U, cfunc is unbound and the first iteration raises
ChebStep ==
    /\ cpc = "loop"
    /\ l >= 0
    /\ IF cArgs.kind \notin {"T", "U"}
       THEN /\ cpc' = "raised"
            /\ cRet' = Raised("UnboundLocalError")
            /\ UNCHANGED <<P, C, l, sweep>>
       ELSE LET deg == Size(cArgs.pcoefs) - 1
                r == P[l]
                poly_term == cfunc(cArgs.kind, l)
                c == RDiv(r, poly_term[Size(poly_term) - 1])
            IN  /\ C' = Append(C, c)
                /\ P' = PolySub(P, PolyScale(c, Padded(cfunc(cArgs.kind, l), deg + 1)))
                /\ l' = l - 1
                /\ sweep' = Append(sweep, l)
                /\ UNCHANGED <<cpc, cRet>>
    /\ UNCHANGED cArgs
    /\ UNCHANGED <<genVars, respVars>>

\* line 161
ChebReturn ==
    /\ cpc = "loop"
    /\ l < 0
    /\ cpc' = "returned"
    /\ cRet' = Returned(Result(C))
    /\ UNCHANGED <<cArgs, P, C, l, sweep>>
    /\ UNCHANGED <<genVars, respVars>>

-----------------------------------------------------------------------------
(* Specifications                                                          *)

GenIdle ==
    /\ avec = NoAttr
    /\ bvec = NoAttr
    /\ genCall = NoCall
    /\ genGamma = NoGamma
    /\ genRet = NoResult
    /\ phiWrites = <<>>

RespIdle ==
    /\ rArgs = NoRespArgs
    /\ rpc = "idle"
    /\ measurement = None
    /\ model = <<>>
    /\ pmats = <<>>
    /\ pdat = <<>>
    /\ Ulog = <<>>
    /\ rRet = NoRespResult

ChebIdle ==
    /\ cArgs = NoPolyArgs
    /\ cpc = "idle"
    /\ P = <<>>
    /\ C = <<>>
    /\ l = 0
    /\ sweep = <<>>
    /\ cRet = NoResult

\* One FPSearch instance and erf_step, called any number of times in any order.
InitGen == GenIdle /\ RespIdle /\ ChebIdle
NextGen == FPGenerate \/ ErfGenerate
SpecGen == InitGen /\ [][NextGen]_vars

\* One call of ComputeQSPResponse on arguments drawn from the bounded sets.
Vals == 1..NumVals
InitResp ==
    /\ GenIdle /\ ChebIdle
    /\ rArgs \in {RespArgs(adat, phiset, so, meas) :
                    adat \in SeqsUpTo(Vals, MaxAdat),
                    phiset \in SeqsUpTo(Vals, MaxPhis),
                    so \in {"Wx", "Wz", "bogus"},
                    meas \in OptOf({"x", "z", "bogus"})}
    /\ rpc = "start"
    /\ measurement = None
    /\ model = <<>>
    /\ pmats = <<>>
    /\ pdat = <<>>
    /\ Ulog = <<>>
    /\ rRet = NoRespResult
NextResp == RespSetup \/ RespPmats \/ RespSample \/ RespReturn
SpecResp == InitResp /\ [][NextResp]_vars

\* One call of poly2chebyfn on arguments drawn from the bounded sets.
Coefs == {RInt(c) : c \in (-MaxCoef)..MaxCoef}
Polys == UNION {[0..(n - 1) -> Coefs] : n \in 0..(MaxDeg + 1)}
InitCheb ==
    /\ GenIdle /\ RespIdle
    /\ cArgs \in {PolyArgs(p, k) : p \in Polys, k \in {"T", "U", "X"}}
    /\ cpc = "start"
    /\ P = <<>>
    /\ C = <<>>
    /\ l = 0
    /\ sweep = <<>>
    /\ cRet = NoResult
NextCheb == ChebSetup \/ ChebStep \/ ChebReturn
SpecCheb == InitCheb /\ [][NextCheb]_vars

-----------------------------------------------------------------------------
(* Properties of the generators, checked under SpecGen                     *)

FPReturnedPhivec ==
    genCall.op = "fpsearch" /\ ~genCall.return_alpha /\ genRet.kind = "return"

\* C1: after FPSearch.generate(d) with d >= 1 and return_alpha false, for any
\* delta and gamma, the call returned a vector phi on exactly the indices
\* 0..2d-1, each assigned exactly once, with phi[2k] = -avec[d-k-1]/2 and
\* phi[2k+1] = bvec[d-k-1]/2 = -avec[k]/2 for k in 0..d-1, where avec and bvec
\* have length d, avec[i] is the angle for k = i+1 and bvec[i] = -avec[d-1-i].
C1_PhivecInterleavesAvecBvec ==
    (genCall.op = "fpsearch" /\ ~genCall.return_alpha /\ genCall.d >= 1) =>
        LET d == genCall.d
            phi == genRet.v
            a == avec.v
            b == bvec.v
        IN  /\ genRet.kind = "return"
            /\ DOMAIN phi = 0..(2 * d - 1)
            /\ Size(phi) = 2 * d
            /\ avec.set /\ bvec.set
            /\ DOMAIN a = 0..(d - 1)
            /\ DOMAIN b = 0..(d - 1)
            /\ DOMAIN phiWrites = 0..(2 * d - 1)
            /\ \A i \in 0..(2 * d - 1) : phiWrites[i] = 1
            /\ \A i \in 0..(d - 1) :
                /\ a[i] = Angle(RInt(2), i + 1, 2 * d + 1, genGamma)
                /\ b[i] = AngNeg(a[d - 1 - i])
            /\ \A k \in 0..(d - 1) :
                /\ phi[2 * k] = AngHalf(AngNeg(a[d - k - 1]))
                /\ phi[2 * k + 1] = AngHalf(b[d - k - 1])
                /\ phi[2 * k + 1] = AngHalf(AngNeg(a[k]))

C1_Witness ==
    FPReturnedPhivec /\ genCall.d >= 2 /\ Size(genRet.v) = 2 * genCall.d

\* C2: erf_step.generate(n) returns the literal 8-entry table for n = 7 and
\* the literal 24-entry table for n = 23; for every other n it raises and
\* returns no vector.
C2_ErfStepTableOrError ==
    genCall.op = "erf_step" =>
        /\ genCall.n = 7 =>
            genRet.kind = "return" /\ genRet.v = phi_n7_erf /\ Len(genRet.v) = 8
        /\ genCall.n = 23 =>
            genRet.kind = "return" /\ genRet.v = phi_n23_erf /\ Len(genRet.v) = 24
        /\ genCall.n \notin {7, 23} =>
            genRet.kind = "raise" /\ genRet.exc = "Exception" /\ genRet.v = <<>>

C2_Witness ==
    genCall.op = "erf_step" /\ genCall.n \notin {7, 23} /\ genRet.kind = "raise"

\* C9 (as claimed): after any sequence of FPSearch.generate calls, with any
\* mix of d, delta, gamma and return_alpha, self.avec and self.bvec are the
\* avec and bvec of the most recent call.
C9_FieldsHoldMostRecentCall ==
    genCall.op = "fpsearch" =>
        LET d == genCall.d
            a == Avec(d, 2 * d + 1, genGamma)
        IN  /\ avec = Attr(a)
            /\ bvec = Attr([i \in 0..(d - 1) |-> AngNeg(a[d - 1 - i])])

\* C10: when gamma is supplied, the construction uses it as given, whatever
\* delta is; when it is not, gamma is derived from delta (and L = 2d+1), with
\* delta = 1/10 when delta is not supplied either.  Every angle of the result
\* is built from that gamma and no other.
C10_GammaGovernsNotDelta ==
    genCall.op = "fpsearch" =>
        LET d == genCall.d
            g == IF ~IsNone(genCall.gamma) THEN GivenGamma(Get(genCall.gamma))
                 ELSE IF ~IsNone(genCall.delta)
                      THEN DerivedGamma(2 * d + 1, Get(genCall.delta))
                      ELSE DerivedGamma(2 * d + 1, <<1, 10>>)
        IN  /\ genGamma = g
            /\ genRet.kind = "return"
            /\ \A i \in DOMAIN genRet.v : genRet.v[i].g = g

C10_Witness ==
    /\ genCall.op = "fpsearch"
    /\ ~IsNone(genCall.gamma)
    /\ ~IsNone(genCall.delta)
    /\ genCall.d >= 1
    /\ genRet.kind = "return"

-----------------------------------------------------------------------------
(* Properties of ComputeQSPResponse, checked under SpecResp                *)

RECURSIVE Concat(_)
Concat(ss) == IF ss = <<>> THEN <<>> ELSE Head(ss) \o Concat(Tail(ss))

Count(s, m) == Cardinality({j \in 1..Len(s) : s[j].m = m})

\* qsp_op(phi_0) sig_op(a) qsp_op(phi_1) ... sig_op(a) qsp_op(phi_last)
ExpectedU(so, phiset, a) ==
    Concat([j \in 1..(2 * Len(phiset) - 1) |->
              IF j % 2 = 1 THEN qsp_op(so, phiset[(j + 1) \div 2])
              ELSE sig_op(so, a)])

ValidConfig ==
    /\ rArgs.signal_operator \in {"Wx", "Wz"}
    /\ IsNone(rArgs.measurement) \/ Get(rArgs.measurement) \in {"x", "z"}

\* C3: a call with a signal_operator outside {Wx, Wz} or a measurement
\* outside {x, z} ends in ResponseError as its first step: no phase factor
\* has been built, no sample evaluated, no dataset returned.
C3_InvalidConfigFailsFirst ==
    (rpc \notin {"idle", "start"} /\ ~ValidConfig) =>
        /\ rpc = "raised"
        /\ rRet = RaisedResp("ResponseError")
        /\ pmats = <<>>
        /\ pdat = <<>>
        /\ Ulog = <<>>

C3_Witness ==
    /\ rpc = "raised"
    /\ rArgs.signal_operator = "Wx"
    /\ rArgs.measurement = Some("bogus")
    /\ Len(rArgs.phiset) > 0
    /\ Len(rArgs.adat) > 0

\* C4: a returned dataset's model is (signal_operator, measurement used),
\* where the measurement used, which also selects the measurement state of
\* every response, is the supplied one if one was supplied, else x for Wx
\* and z for Wz.
C4_DefaultMeasurementIsNative ==
    rpc = "returned" =>
        LET so == rArgs.signal_operator
            used == IF ~IsNone(rArgs.measurement) THEN Get(rArgs.measurement)
                    ELSE IF so = "Wx" THEN "x" ELSE "z"
        IN  /\ so \in {"Wx", "Wz"}
            /\ measurement = Some(used)
            /\ rRet.kind = "return"
            /\ rRet.ds.model = <<so, Some(used)>>
            /\ \A i \in 1..Len(rRet.ds.pdat) :
                   rRet.ds.pdat[i].ket = p_state(Some(used))

C4_Witness ==
    /\ rpc = "returned"
    /\ IsNone(rArgs.measurement)
    /\ rArgs.signal_operator = "Wz"
    /\ Len(rRet.ds.pdat) > 0

\* C5 (as claimed): every call with a valid signal_operator and measurement,
\* for any adat and phiset, the empty ones included, returns a dataset with
\* len(pdat) = len(adat) and pdat[i] the response for adat[i].
C5_ValidCallReturnsAlignedPdat ==
    ValidConfig =>
        /\ rpc # "raised"
        /\ rpc = "returned" =>
            /\ Len(rRet.ds.pdat) = Len(rArgs.adat)
            /\ \A i \in 1..Len(rArgs.adat) :
                   rRet.ds.pdat[i] =
                       Response(p_state(measurement),
                                ExpectedU(rArgs.signal_operator, rArgs.phiset,
                                          rArgs.adat[i]))

\* C6: the operator built for the i-th sample a = adat[i] is the product
\* qsp_op(phi_0) sig_op(a) qsp_op(phi_1) ... sig_op(a) qsp_op(phi_last) in
\* the order of phiset: len(phiset) phase factors, len(phiset)-1 signal
\* factors, one between each two consecutive phase factors.
C6_UIsOrderedAlternatingProduct ==
    \A i \in 1..Len(Ulog) :
        LET so == rArgs.signal_operator
            a == rArgs.adat[i]
            n == Len(rArgs.phiset)
        IN  /\ Ulog[i] = ExpectedU(so, rArgs.phiset, a)
            /\ pdat[i].U = Ulog[i]
            /\ Count(Ulog[i], "diag") = n
            /\ Count(Ulog[i], "rot") = n - 1

C6_Witness ==
    /\ Len(Ulog) >= 2
    /\ Len(rArgs.phiset) = 3
    /\ rArgs.phiset[1] # rArgs.phiset[2]
    /\ rArgs.adat[1] # rArgs.adat[2]
    /\ rArgs.signal_operator = "Wz"

-----------------------------------------------------------------------------
(* Properties of poly2chebyfn, checked under SpecCheb                      *)

\* sum over j = 0..n of res[j] * Chebyshev_j, as deg+1 power-basis coefficients
RECURSIVE ChebSum(_, _, _, _)
ChebSum(res, kind, n, deg) ==
    IF n < 0 THEN [i \in 0..deg |-> RZero]
    ELSE PolyAdd(ChebSum(res, kind, n - 1, deg),
                 PolyScale(res[n + 1], Padded(Chebyshev(kind, n), deg + 1)))

\* C7: for kind T or U, poly2chebyfn on deg+1 coefficients runs its loop body
\* exactly deg+1 times, for l = deg, deg-1, ..., 0, leaves P zero in every
\* coefficient and returns deg+1 coefficients, result[l] the coefficient of
\* Chebyshev_l, whose Chebyshev sum is the input polynomial.
C7_ChebyshevRoundTrip ==
    (cpc = "returned" /\ cArgs.kind \in {"T", "U"}) =>
        LET deg == Size(cArgs.pcoefs) - 1
            res == cRet.v
        IN  /\ cRet.kind = "return"
            /\ Len(sweep) = deg + 1
            /\ \A i \in 1..(deg + 1) : sweep[i] = deg + 1 - i
            /\ \A i \in DOMAIN P : P[i] = RZero
            /\ Len(res) = deg + 1
            /\ \A i \in 0..deg : ChebSum(res, cArgs.kind, deg, deg)[i] = cArgs.pcoefs[i]

C7_Witness ==
    /\ cpc = "returned"
    /\ cArgs.kind = "U"
    /\ Size(cArgs.pcoefs) >= 3
    /\ cArgs.pcoefs[Size(cArgs.pcoefs) - 1] # RZero
    /\ cArgs.pcoefs[0] # RZero
    /\ \E i \in 1..Len(cRet.v) : cRet.v[i][2] # 1

\* The divisor of every loop iteration, the leading coefficient of
\* Chebyshev_l, is 1 for l = 0 and otherwise 2^(l-1) for T and 2^l for U:
\* no call reaches a zero divisor.
LeadingCoefficientNonzero ==
    (cpc = "loop" /\ l >= 0 /\ cArgs.kind \in {"T", "U"}) =>
        LET poly_term == cfunc(cArgs.kind, l)
        IN  poly_term[Size(poly_term) - 1][1] > 0

=============================================================================
